---------------------------- MODULE Spec2Model ----------------------------
(***************************************************************************)
(* A model of the grocery-list client of a Google Sheets spreadsheet:      *)
(* GoogleSheetsService (token cache, list / append / delete / reorder) and *)
(* the remote endpoints it talks to.                                       *)
(*                                                                         *)
(* Texts the code inspects character by character (cell values, item ids)  *)
(* are sequences of one-character strings; texts it only passes along      *)
(* (storage entries, tokens, response bodies of failed requests, the fixed *)
(* parts of error messages) are plain strings.                             *)
(***************************************************************************)
EXTENDS Integers, Sequences, FiniteSets, TLC

VARIABLES
    storage,      \* localStorage: serviceAccountKey, googleSheetsId, googleSheetsName
    accessToken,  \* GoogleSheetsService.accessToken
    tokenExpiry,  \* GoogleSheetsService.tokenExpiry (epoch ms)
    now,          \* Date.now()
    sheet,        \* the remote tab, columns A-D: sheet[r] is sheet row r
    call,         \* call[p]: the service call that call site p is running
    listed,       \* the records the latest completed list() handed to its caller
    dirty,        \* a write reached the sheet after the read that produced `listed`
    issued,       \* the successful answers of the token endpoint: how many, and the last
    localItems,   \* the records the list page shows (part_001 line 36)
    form          \* the fields of the settings page (Settings.tsx lines 13-15)

vars == <<storage, accessToken, tokenExpiry, now, sheet, call, listed, dirty, issued, localItems, form>>

---------------------------------------------------------------------------
(* Bounds of the model *)

\* rows of the remote grid (a write past the grid is refused by the service)
MaxRow == 4
\* how many times the clock advances
MaxTicks == 3
\* how many successful exchanges the token endpoint answers
MaxExchanges == 3
\* rows of a response body drawn freely
MaxBodyRows == 4

Procs == {1, 2}

---------------------------------------------------------------------------
(* Texts *)

\* the value of an absent property or array element (JS undefined); no text
\* is made of a several-character element, so it differs from every text
Undefined == <<"undefined">>

\* localStorage.getItem of a key that was never set
Null == "null"

EmptyText == <<>>

WhiteSpace == {" ", "\t"}

Upper == <<"A","B","C","D","E","F","G","H","I","J","K","L","M",
           "N","O","P","Q","R","S","T","U","V","W","X","Y","Z">>
Lower == <<"a","b","c","d","e","f","g","h","i","j","k","l","m",
           "n","o","p","q","r","s","t","u","v","w","x","y","z">>

\* String.prototype.toLowerCase, one character
LowerChar(c) ==
    IF \E k \in 1..26 : Upper[k] = c
    THEN Lower[CHOOSE k \in 1..26 : Upper[k] = c]
    ELSE c

toLowerCase(s) == [k \in 1..Len(s) |-> LowerChar(s[k])]

RECURSIVE TrimStart(_)
TrimStart(s) ==
    IF s # <<>> /\ Head(s) \in WhiteSpace THEN TrimStart(Tail(s)) ELSE s

RECURSIVE TrimEnd(_)
TrimEnd(s) ==
    IF s # <<>> /\ s[Len(s)] \in WhiteSpace
    THEN TrimEnd(SubSeq(s, 1, Len(s) - 1))
    ELSE s

\* String.prototype.trim
trim(s) == TrimEnd(TrimStart(s))

DigitChars == <<"0","1","2","3","4","5","6","7","8","9">>

\* the decimal text of a natural number, as a template literal renders it
RECURSIVE Decimal(_)
Decimal(n) ==
    IF n < 10 THEN <<DigitChars[n + 1]>>
    ELSE Decimal(n \div 10) \o <<DigitChars[(n % 10) + 1]>>

\* `item_${i}_${itemName}`
ItemId(i, itemName) ==
    <<"i","t","e","m","_">> \o Decimal(i) \o <<"_">> \o itemName

\* the texts of the model's cells and items
Milk == <<"M","i","l","k">>
Eggs == <<"E","g","g","s">>
PaddedEggs == <<" ","E","g","g","s"," ">>
HeaderItem == <<"I","t","e","m">>
LowerItem == <<"i","t","e","m">>
Blank == <<" ">>
Two == <<"2">>
PaddedTwo == <<" ","2","\t">>
Dairy == <<"D","a","i","r","y">>

---------------------------------------------------------------------------
(* getGroceryItems: the rows of a response body become records *)

\* row[j] of a JS array: undefined past its end
Cell(row, j) == IF j < Len(row) THEN row[j + 1] ELSE Undefined

\* a JS value used as a condition: undefined and '' are falsy
Truthy(text) == text # Undefined /\ text # EmptyText

\* x?.trim() || ''
TrimOrEmpty(text) ==
    IF text = Undefined THEN EmptyText
    ELSE IF Truthy(trim(text)) THEN trim(text) ELSE EmptyText

\* the test that skips a row (line 223)
SkipRow(row) ==
    \/ Len(row) = 0
    \/ ~Truthy(Cell(row, 0))
    \/ trim(Cell(row, 0)) = EmptyText

\* the record pushed for row i, or nothing (lines 227-238)
RowItems(row, i) ==
    LET itemName == TrimOrEmpty(Cell(row, 0))
        quantity == TrimOrEmpty(Cell(row, 1))
        category == TrimOrEmpty(Cell(row, 2))
    IN  IF Truthy(itemName) /\ toLowerCase(itemName) # LowerItem
        THEN << [id |-> ItemId(i, itemName), name |-> itemName,
                 quantity |-> quantity, category |-> category] >>
        ELSE <<>>

\* the loop of lines 219-239, from JS index i on; values[i] is rows[i + 1]
RECURSIVE ParseFrom(_, _)
ParseFrom(rows, i) ==
    IF i >= Len(rows) THEN <<>>
    ELSE (IF SkipRow(rows[i + 1]) THEN <<>> ELSE RowItems(rows[i + 1], i))
         \o ParseFrom(rows, i + 1)

\* a response body: data.values may be missing
NoValues == [has |-> FALSE, values |-> <<>>]
Values(rows) == [has |-> TRUE, values |-> rows]

\* lines 207-242 with the loop of line 219 starting at row 0
ParseItemsFromRowZero(data) ==
    IF ~data.has THEN <<>> ELSE ParseFrom(data.values, 0)

\* lines 207-242
ParseItems(data) ==
    IF ~data.has \/ Len(data.values) = 0 THEN <<>>
    ELSE IF Len(data.values) = 1 THEN <<>>
    ELSE ParseFrom(data.values, 1)

---------------------------------------------------------------------------
(* The remote spreadsheet *)

BlankRow == <<EmptyText, EmptyText, EmptyText, EmptyText>>

Rows == 1..MaxRow

\* the one tab the spreadsheet has; a range naming another tab is refused
RemoteTab == "Sheet1"

\* the last row holding a value, 0 for an empty tab
LastUsedRow(sh) ==
    IF \E r \in Rows : sh[r] # BlankRow
    THEN CHOOSE r \in Rows : sh[r] # BlankRow /\ \A q \in Rows : q > r => sh[q] = BlankRow
    ELSE 0

\* a row as the service returns it: trailing empty cells are left out
RECURSIVE DropTrailingEmpty(_)
DropTrailingEmpty(row) ==
    IF row # <<>> /\ row[Len(row)] = EmptyText
    THEN DropTrailingEmpty(SubSeq(row, 1, Len(row) - 1))
    ELSE row

\* the body of GET values/{tab}!A:D: rows up to the last used one, no
\* `values` at all for an empty tab
ReadBody(sh) ==
    IF LastUsedRow(sh) = 0 THEN NoValues
    ELSE Values([r \in 1..LastUsedRow(sh) |-> DropTrailingEmpty(sh[r])])

\* values:batchUpdate of one range A<first>:D<last>; '' empties a cell. The
\* texts the client writes here are plain words and digits, which the
\* service keeps as entered.
ApplyWrite(sh, first, values) ==
    [r \in Rows |->
        IF r >= first /\ r < first + Len(values) THEN values[r - first + 1] ELSE sh[r]]

\* the service accepts a write that names the tab and stays inside the grid
WriteAccepted(req) ==
    /\ req.tab = RemoteTab
    /\ req.first >= 1 /\ req.last <= MaxRow
    /\ Len(req.values) <= req.last - req.first + 1

\* the statuses and body texts of the answers that are not a success
FailStatuses == {403, 404, 500}
FailBody(status) ==
    CASE status = 403 -> "PERMISSION_DENIED"
      [] status = 404 -> "NOT_FOUND"
      [] OTHER -> "INTERNAL"

---------------------------------------------------------------------------
(* localStorage and the credential record *)

\* serviceAccountKey entries: never set, empty, not JSON, JSON without
\* client_email or private_key, a record whose key does not import, a good one
KeyNone == Null
KeyEmpty == ""
KeyNotJson == "not json"
KeyNoFields == "{}"
KeyBadPem == "{client_email, private_key: garbage}"
KeyGood == "{client_email, private_key}"

KeyEntries == {KeyNone, KeyEmpty, KeyNotJson, KeyNoFields, KeyBadPem, KeyGood}
IdEntries == {Null, "", "sheet-id"}
NameEntries == {Null, "", "Sheet1", "Other"}

\* the three entries as the service may find them
Storages ==
    [serviceAccountKey : KeyEntries, googleSheetsId : IdEntries, googleSheetsName : NameEntries]

\* !x for a storage entry: null and '' are falsy
Missing(entry) == entry = Null \/ entry = ""

\* the messages of the errors the service throws, as the parts of their text
MsgNoCredentials == <<"Service Account credentials not configured. Please add your service account JSON in settings.">>
MsgBadCredentials == <<"Invalid service account credentials format">>
MsgNoSheetId == <<"Google Sheet ID not configured. Please check settings.">>
MsgAccessDenied == <<"Access denied. Please ensure your service account has access to the sheet.">>
MsgNotFound == <<"Sheet not found. Please check your Sheet ID.">>
MsgBadItemId == <<"Invalid item ID format">>
MsgKeyImport == <<"DataError">>
MsgNetwork == <<"Failed to fetch">>
MsgHttp(prefix, status, text) == <<prefix, ToString(status), " - ", text>>

\* getServiceAccountCredentials (lines 66-88): the record, or the error thrown
getServiceAccountCredentials ==
    LET key == storage.serviceAccountKey
    IN  IF Missing(key) THEN [ok |-> FALSE, error |-> MsgNoCredentials, key |-> key]
        ELSE IF key \in {KeyNotJson, KeyNoFields}
             THEN [ok |-> FALSE, error |-> MsgBadCredentials, key |-> key]
             ELSE [ok |-> TRUE, error |-> <<>>, key |-> key]

\* the catch of getAccessToken (lines 138-141) rethrows every error wrapped
AuthFailed(message) ==
    <<"Authentication failed: ">> \o message
        \o <<". Please check your service account configuration.">>

\* getSheetName (lines 153-157)
getSheetName ==
    IF Missing(storage.googleSheetsName) THEN "Sheet1" ELSE storage.googleSheetsName

\* getSheetId (lines 144-151) throws when the entry is missing
SheetIdConfigured == ~Missing(storage.googleSheetsId)

---------------------------------------------------------------------------
(* The token cache *)

\* this.accessToken = null
NoToken == 0

\* line 134: the lifetime the issuer reports, in seconds, less a minute
SecondMs == 1000
SafetyMarginMs == 60000

\* line 134 without the safety margin
ExpiryOfWholeLifetime(t, expiresIn) == t + (expiresIn * SecondMs)

ExpiryOf(t, expiresIn) == t + (expiresIn * SecondMs) - SafetyMarginMs

\* the two fields of the cache
Cache == [token |-> accessToken, expiry |-> tokenExpiry]

\* line 92 without the test of the expiry
CachedTokenPresent(cache) == cache.token # NoToken

\* line 92: this.accessToken && Date.now() < this.tokenExpiry
CachedTokenUsable(cache) == cache.token # NoToken /\ now < cache.expiry

\* lines 133-134 keeping the later of the old and the new expiry
StoredTokenLatestExpiry(token, expiresIn) ==
    [token |-> token,
     expiry |-> IF tokenExpiry > ExpiryOf(now, expiresIn) THEN tokenExpiry
                ELSE ExpiryOf(now, expiresIn)]

\* lines 133-134: both fields are assigned with no await in between
StoredToken(token, expiresIn) == [token |-> token, expiry |-> ExpiryOf(now, expiresIn)]

---------------------------------------------------------------------------
(* A running call of the service.  Between two awaits a call runs alone;   *)
(* pc names the await it is suspended at:                                  *)
(*   "exchange"  the answer of the token endpoint (line 115)               *)
(*   "read"      the answer of GET values (line 182)                       *)
(*   "write"     the answer of POST values:batchUpdate (275, 329, 384)     *)
(* createJWT's own awaits (lines 34, 53) touch no shared state and are     *)
(* taken together with the step that reaches line 115.                     *)

NoItem == [id |-> EmptyText, name |-> EmptyText, quantity |-> EmptyText, category |-> EmptyText]
NoRequest == [kind |-> "none", tab |-> "", first |-> 0, last |-> 0, values |-> <<>>, bearer |-> NoToken]
NoResult == [state |-> "none", items |-> <<>>, error |-> <<>>]

Idle ==
    [pc |-> "idle", op |-> "none",
     inner |-> FALSE,        \* getGroceryItems is running inside addGroceryItem
     tokFor |-> "none",      \* the function suspended in await getAccessToken()
     item |-> NoItem, itemId |-> EmptyText, items |-> <<>>,   \* the argument
     sheetName |-> "",       \* sheetName of the write operation
     readName |-> "",        \* sheetName of getGroceryItems
     token |-> NoToken,      \* token of the write operation
     key |-> Null,           \* the credentials getAccessToken read
     seen |-> [token |-> NoToken, expiry |-> 0, at |-> 0, hit |-> FALSE],
                             \* what the latest cache test of the call found
     body |-> NoValues,      \* the body the latest read answered
     sent |-> <<>>,          \* the requests this operation issued, in order
     fresh |-> FALSE,        \* its write reached the sheet with no write since `listed` was read
     result |-> NoResult]

ExchangeRequest == [NoRequest EXCEPT !.kind = "exchange"]
ReadRequest(tab, tok) == [NoRequest EXCEPT !.kind = "read", !.tab = tab, !.bearer = tok]
WriteRequest(tab, first, last, values, tok) ==
    [kind |-> "write", tab |-> tab, first |-> first, last |-> last,
     values |-> values, bearer |-> tok]

\* the operation ends with an error thrown to its caller; of a call that
\* ended, the operation, the requests it issued, the body it read and its
\* outcome are kept
Rethrow(t, message) ==
    [Idle EXCEPT !.op = t.op, !.sent = t.sent, !.body = t.body,
                 !.result = [state |-> "error", items |-> <<>>, error |-> message]]

\* testConnection returns a boolean (lines 408-416); of the error it
\* catches, the text it logs at line 413 is kept
Finished(t, state, message) ==
    [Idle EXCEPT !.op = t.op, !.sent = t.sent, !.body = t.body,
                 !.result = [state |-> state, items |-> <<>>, error |-> message]]

\* an error is thrown: inside testConnection it is caught and false is
\* returned (lines 412-415), elsewhere it reaches the caller
Throw(t, message) ==
    IF t.op = "test" THEN Finished(t, "false", message) ELSE Rethrow(t, message)

\* the operation ends normally; testConnection returns true (line 411)
Return(t, items) ==
    IF t.op = "test" THEN Finished(t, "true", <<>>)
    ELSE [Idle EXCEPT !.op = t.op, !.sent = t.sent, !.body = t.body,
                      !.result = [state |-> "ok", items |-> items, error |-> <<>>]]

\* fetch(...): the request leaves and the call waits for the answer
Fetch(t, req, pc) == [t EXCEPT !.sent = Append(@, req), !.pc = pc]

\* what the cache test of line 92 reads
CacheSeen(cache) ==
    [token |-> cache.token, expiry |-> cache.expiry, at |-> now, hit |-> CachedTokenUsable(cache)]

\* the import of the PEM key by createJWT (lines 24-43) fails on a bad key
KeyImports(key) == key # KeyBadPem

\* getAccessToken up to its first await on the network (lines 90-124), for
\* the function `who`: the cached token, an error, or the exchange request
\* in flight
GetAccessTokenStart(t, who, cache) ==
    LET c == getServiceAccountCredentials
        u == [t EXCEPT !.seen = CacheSeen(cache), !.tokFor = who]
    IN  IF CachedTokenUsable(cache) THEN [kind |-> "token", token |-> cache.token, call |-> u]
        ELSE IF ~c.ok THEN [kind |-> "throw", token |-> NoToken, call |-> Throw(u, AuthFailed(c.error))]
        ELSE IF ~KeyImports(c.key)
             THEN [kind |-> "throw", token |-> NoToken, call |-> Throw(u, AuthFailed(MsgKeyImport))]
             ELSE [kind |-> "await", token |-> NoToken,
                   call |-> Fetch([u EXCEPT !.key = c.key], ExchangeRequest, "exchange")]

\* getGroceryItems once it holds a token (lines 181-187)
ListWithToken(t, tok) == Fetch(t, ReadRequest(t.readName, tok), "read")

\* getGroceryItems from its start to its first await (lines 173-179)
ListStart(t, cache) ==
    LET u == [t EXCEPT !.readName = getSheetName]
        g == GetAccessTokenStart(u, "list", cache)
    IN  IF ~SheetIdConfigured THEN Throw(u, MsgNoSheetId)
        ELSE IF g.kind = "token" THEN ListWithToken(g.call, g.token)
        ELSE g.call

\* line 258
NextRow(count) == count + 2

\* addGroceryItem once getGroceryItems returned (lines 258-282)
AppendWithItems(t, currentItems) ==
    LET nextRow == NextRow(Len(currentItems))
        values == << <<t.item.name,
                       IF Truthy(t.item.quantity) THEN t.item.quantity ELSE EmptyText,
                       IF Truthy(t.item.category) THEN t.item.category ELSE EmptyText,
                       EmptyText>> >>
    IN  Fetch([t EXCEPT !.inner = FALSE],
              WriteRequest(t.sheetName, nextRow, nextRow, values, t.token), "write")

\* addGroceryItem once it holds a token (lines 254-257)
AppendWithToken(t, tok, cache) ==
    IF ~SheetIdConfigured THEN Throw(t, MsgNoSheetId)
    ELSE ListStart([t EXCEPT !.token = tok, !.inner = TRUE], cache)

\* line 309 without the + 1
DeleteRowAsParsed(parsedIndex) == parsedIndex

\* line 309: parseInt(rowMatch[1]) + 1
DeleteRow(parsedIndex) == parsedIndex + 1

\* the number the digits from position k of the id spell, when they are
\* at least one and an underscore follows them; -1 otherwise
RECURSIVE DigitsValue(_, _, _, _)
DigitsValue(id, k, acc, some) ==
    IF k <= Len(id) /\ (\E d \in 1..10 : DigitChars[d] = id[k])
    THEN DigitsValue(id, k + 1,
                     (acc * 10) + (CHOOSE d \in 1..10 : DigitChars[d] = id[k]) - 1, TRUE)
    ELSE IF k <= Len(id) /\ id[k] = "_" /\ some THEN acc ELSE -1

\* /item_(\d+)_/ tried at position k of the id
MatchAt(id, k) ==
    IF k + 4 <= Len(id) /\ SubSeq(id, k, k + 4) = <<"i","t","e","m","_">>
    THEN DigitsValue(id, k + 5, 0, FALSE)
    ELSE -1

\* /item_(\d+)_/ taking the rightmost match instead of the leftmost
ParsedIndexRightmost(id) ==
    IF \E k \in 1..Len(id) : MatchAt(id, k) >= 0
    THEN MatchAt(id, CHOOSE k \in 1..Len(id) :
                        MatchAt(id, k) >= 0 /\ \A j \in (k + 1)..Len(id) : MatchAt(id, j) < 0)
    ELSE -1

\* itemId.match(/item_(\d+)_/) and parseInt of the group (lines 304-309):
\* the leftmost match, -1 for no match
ParsedIndex(id) ==
    IF \E k \in 1..Len(id) : MatchAt(id, k) >= 0
    THEN MatchAt(id, CHOOSE k \in 1..Len(id) :
                        MatchAt(id, k) >= 0 /\ \A j \in 1..(k - 1) : MatchAt(id, j) < 0)
    ELSE -1

\* lines 312-336 refusing an id handed out before the latest write
DeleteWithTokenGuarded(t, tok) ==
    LET rowIndex == DeleteRow(ParsedIndex(t.itemId))
    IN  IF ~SheetIdConfigured THEN Throw(t, MsgNoSheetId)
        ELSE IF dirty THEN Throw(t, MsgBadItemId)
        ELSE Fetch([t EXCEPT !.token = tok],
                   WriteRequest(t.sheetName, rowIndex, rowIndex, <<BlankRow>>, tok), "write")

\* deleteGroceryItem once it holds a token (lines 312-336)
DeleteWithToken(t, tok) ==
    LET rowIndex == DeleteRow(ParsedIndex(t.itemId))
    IN  IF ~SheetIdConfigured THEN Throw(t, MsgNoSheetId)
        ELSE Fetch([t EXCEPT !.token = tok],
                   WriteRequest(t.sheetName, rowIndex, rowIndex, <<BlankRow>>, tok), "write")

\* lines 364-369 with the rows in reverse order
ReorderValuesReversed(items) ==
    [k \in 1..Len(items) |->
        <<items[Len(items) + 1 - k].name,
          IF Truthy(items[Len(items) + 1 - k].quantity)
          THEN items[Len(items) + 1 - k].quantity ELSE EmptyText,
          IF Truthy(items[Len(items) + 1 - k].category)
          THEN items[Len(items) + 1 - k].category ELSE EmptyText,
          EmptyText>>]

\* lines 364-369
ReorderValues(items) ==
    [k \in 1..Len(items) |->
        <<items[k].name,
          IF Truthy(items[k].quantity) THEN items[k].quantity ELSE EmptyText,
          IF Truthy(items[k].category) THEN items[k].category ELSE EmptyText,
          EmptyText>>]

\* line 361: A2:D${reorderedItems.length + 1}
ReorderLastRow(count) == count + 1

\* reorderGroceryItems once it holds a token (lines 358-391)
ReorderWithToken(t, tok) ==
    IF ~SheetIdConfigured THEN Throw(t, MsgNoSheetId)
    ELSE Fetch([t EXCEPT !.token = tok],
               WriteRequest(t.sheetName, 2, ReorderLastRow(Len(t.items)),
                            ReorderValues(t.items), tok), "write")

\* the function suspended in await getAccessToken() goes on with the token
WithToken(t, tok, cache) ==
    CASE t.tokFor = "list" -> ListWithToken(t, tok)
      [] t.tokFor = "append" -> AppendWithToken(t, tok, cache)
      [] t.tokFor = "delete" -> DeleteWithToken(t, tok)
      [] OTHER -> ReorderWithToken(t, tok)

\* a write operation from getSheetName to its first await
WriteOpStart(t, who, cache) ==
    LET u == [t EXCEPT !.sheetName = getSheetName]
        g == GetAccessTokenStart(u, who, cache)
    IN  IF g.kind = "token" THEN WithToken(g.call, g.token, cache) ELSE g.call

---------------------------------------------------------------------------
(* The operations the call sites start *)

\* the items added: a full one, and one whose optional fields are absent
\* (handleAddItem of the page passes '' for both, which line 267 treats alike)
AppendItems ==
    { [id |-> <<"t","e","m","p">>, name |-> Milk, quantity |-> Two, category |-> Dairy],
      [id |-> <<"t","e","m","p">>, name |-> Eggs, quantity |-> Undefined, category |-> Undefined] }

\* the sequences without repetition of 1 to MaxRow - 1 elements of a set
Arrangements(S) ==
    { s \in UNION { [1..n -> S] : n \in 1..(MaxRow - 1) } :
        \A i, j \in 1..Len(s) : i # j => s[i] # s[j] }

Range(s) == { s[k] : k \in 1..Len(s) }

\* the arguments of reorder: the listed records in any order (the page moves
\* one of them), a part of them, or an item whose optional fields are absent
ReorderInputs ==
    Arrangements(Range(listed)) \cup { <<x>> : x \in {y \in AppendItems : y.quantity = Undefined} }

\* getGroceryItems()
StartList(p) ==
    /\ call[p].pc = "idle"
    /\ call' = [call EXCEPT ![p] = ListStart([Idle EXCEPT !.op = "list"], Cache)]
    /\ UNCHANGED <<storage, accessToken, tokenExpiry, now, sheet, listed, dirty, issued, localItems, form>>

\* testConnection(): getGroceryItems() inside its try
StartTest(p) ==
    /\ call[p].pc = "idle"
    /\ call' = [call EXCEPT ![p] = ListStart([Idle EXCEPT !.op = "test"], Cache)]
    /\ UNCHANGED <<storage, accessToken, tokenExpiry, now, sheet, listed, dirty, issued, localItems, form>>

\* addGroceryItem(item)
StartAppend(p) ==
    /\ call[p].pc = "idle"
    /\ \E item \in AppendItems :
         call' = [call EXCEPT ![p] =
                    WriteOpStart([Idle EXCEPT !.op = "append", !.item = item], "append", Cache)]
    /\ UNCHANGED <<storage, accessToken, tokenExpiry, now, sheet, listed, dirty, issued, localItems, form>>

\* deleteGroceryItem(itemId), lines 299-312
DeleteStart(t) ==
    IF ParsedIndex(t.itemId) < 0 THEN Throw(t, MsgBadItemId)
    ELSE WriteOpStart(t, "delete", Cache)

\* deleteGroceryItem(item.id) for a record the page shows
StartDelete(p) ==
    /\ call[p].pc = "idle"
    /\ \E r \in Range(listed) :
         call' = [call EXCEPT ![p] = DeleteStart([Idle EXCEPT !.op = "delete", !.itemId = r.id])]
    /\ UNCHANGED <<storage, accessToken, tokenExpiry, now, sheet, listed, dirty, issued, localItems, form>>

\* deleteGroceryItem(itemId) for an id of the given set
DeleteAnyOf(p, ids) ==
    /\ call[p].pc = "idle"
    /\ \E id \in ids :
         call' = [call EXCEPT ![p] = DeleteStart([Idle EXCEPT !.op = "delete", !.itemId = id])]
    /\ UNCHANGED <<storage, accessToken, tokenExpiry, now, sheet, listed, dirty, issued, localItems, form>>

\* ids handed to deleteGroceryItem by a caller that listed nothing: the id
\* of a record, and the id the page gives an item it has not stored yet
DeleteIds == {ItemId(1, Milk), <<"t","e","m","p","_","7">>}

\* deleteGroceryItem(itemId) for any of these ids
StartDeleteAny(p) == DeleteAnyOf(p, DeleteIds)

\* handleDeleteItem of the page: deleteGroceryItem(item.id) for a record it
\* shows (part_001 lines 138-140, 282)
StartDeleteShown(p) ==
    /\ call[p].pc = "idle"
    /\ \E r \in Range(localItems) :
         call' = [call EXCEPT ![p] = DeleteStart([Idle EXCEPT !.op = "delete", !.itemId = r.id])]
    /\ UNCHANGED <<storage, accessToken, tokenExpiry, now, sheet, listed, dirty, issued, localItems, form>>

\* reorderGroceryItems(reorderedItems)
StartReorder(p) ==
    /\ call[p].pc = "idle"
    /\ \E items \in ReorderInputs :
         call' = [call EXCEPT ![p] =
                    WriteOpStart([Idle EXCEPT !.op = "reorder", !.items = items], "reorder", Cache)]
    /\ UNCHANGED <<storage, accessToken, tokenExpiry, now, sheet, listed, dirty, issued, localItems, form>>

---------------------------------------------------------------------------
(* The answers of the network *)

Last(s) == s[Len(s)]

\* the lifetimes the token endpoint reports, in seconds: one shorter than
\* the safety margin, and one that outlives it by one step of the clock
ExpiresInChoices == {30, 90}

\* the lifetime Google reports, an hour
HourLifetime == {3600}

\* the token endpoint answers 200 with a fresh token and one of the given
\* lifetimes (lines 132-137)
ExchangeAnswered(p, lifetimes) ==
    /\ call[p].pc = "exchange"
    /\ issued.count < MaxExchanges
    /\ \E expiresIn \in lifetimes :
         LET token == issued.count + 1
             cache == StoredToken(token, expiresIn)
         IN  /\ accessToken' = cache.token
             /\ tokenExpiry' = cache.expiry
             /\ issued' = [count |-> token, token |-> token, expiresIn |-> expiresIn,
                           at |-> now]
             /\ call' = [call EXCEPT ![p] = WithToken(call[p], cache.token, cache)]
    /\ UNCHANGED <<storage, now, sheet, listed, dirty, localItems, form>>

ExchangeOk(p) == ExchangeAnswered(p, ExpiresInChoices)

\* the token endpoint answers with a failure status (lines 126-130, 138-141)
ExchangeFail(p) ==
    /\ call[p].pc = "exchange"
    /\ \E status \in FailStatuses :
         call' = [call EXCEPT ![p] =
                    Throw(call[p], AuthFailed(MsgHttp("Failed to get OAuth access token: ",
                                                      status, FailBody(status))))]
    /\ UNCHANGED <<storage, accessToken, tokenExpiry, now, sheet, listed, dirty, issued, localItems, form>>

\* getGroceryItems after a 200 whose body is data (lines 204-242); inside
\* addGroceryItem the records go to line 258
ListAnswered(t, data) ==
    LET u == [t EXCEPT !.body = data]
    IN  IF t.inner THEN AppendWithItems(u, ParseItems(data)) ELSE Return(u, ParseItems(data))

\* the effect of the page on new query data (part_001 lines 60-64): the
\* records shown are replaced when the fetched list is not empty
SyncLocalItems(shown, groceryItems) ==
    IF Len(groceryItems) > 0 THEN groceryItems ELSE shown

\* the read endpoint answers 200 with the body data; the records of a
\* list() of the page become the page's query data, and its effect runs
ReadAnswered(p, data) ==
    /\ call[p].pc = "read"
    /\ Last(call[p].sent).tab = RemoteTab
    /\ call' = [call EXCEPT ![p] = ListAnswered(call[p], data)]
    /\ listed' = IF call[p].inner \/ call[p].op = "test" THEN listed ELSE ParseItems(data)
    /\ dirty' = IF call[p].inner \/ call[p].op = "test" THEN dirty ELSE FALSE
    /\ localItems' = IF call[p].inner \/ call[p].op = "test" THEN localItems
                     ELSE SyncLocalItems(localItems, ParseItems(data))
    /\ UNCHANGED <<storage, accessToken, tokenExpiry, now, sheet, issued, form>>

\* the read endpoint answers 200 with the rows of the tab
ReadOk(p) == ReadAnswered(p, ReadBody(sheet))

\* the error of lines 191-202 for a failure status of the read endpoint
ReadError(status, text) ==
    IF status = 403 THEN MsgAccessDenied
    ELSE IF status = 404 THEN MsgNotFound
    ELSE MsgHttp("HTTP error! status: ", status, text)

\* lines 191-202 dropping the cached token when the read is refused
ReadFailInvalidating(p) ==
    /\ call[p].pc = "read"
    /\ \E status \in FailStatuses :
         call' = [call EXCEPT ![p] = Throw(call[p], ReadError(status, FailBody(status)))]
    /\ accessToken' = NoToken
    /\ tokenExpiry' = 0
    /\ UNCHANGED <<storage, now, sheet, listed, dirty, issued, localItems, form>>

\* lines 191-202 sending the read once more instead of throwing
ReadFailRetrying(p) ==
    /\ call[p].pc = "read"
    /\ call' = [call EXCEPT ![p] = Fetch(call[p], Last(call[p].sent), "read")]
    /\ UNCHANGED <<storage, accessToken, tokenExpiry, now, sheet, listed, dirty, issued, localItems, form>>

\* the read endpoint answers with a failure status
ReadFail(p) ==
    /\ call[p].pc = "read"
    /\ \E status \in FailStatuses :
         call' = [call EXCEPT ![p] = Throw(call[p], ReadError(status, FailBody(status)))]
    /\ UNCHANGED <<storage, accessToken, tokenExpiry, now, sheet, listed, dirty, issued, localItems, form>>

\* the write endpoint answers 200: the range holds the values
WriteOk(p) ==
    /\ call[p].pc = "write"
    /\ WriteAccepted(Last(call[p].sent))
    /\ sheet' = ApplyWrite(sheet, Last(call[p].sent).first, Last(call[p].sent).values)
    /\ dirty' = TRUE
    /\ call' = [call EXCEPT ![p] = [Return(call[p], <<>>) EXCEPT !.fresh = ~dirty]]
    /\ UNCHANGED <<storage, accessToken, tokenExpiry, now, listed, issued, localItems, form>>

\* the error of lines 284-288, 338-342, 393-397
WriteError(op, status, text) ==
    MsgHttp(CASE op = "append" -> "Failed to add item: "
              [] op = "delete" -> "Failed to delete item: "
              [] OTHER -> "Failed to reorder items: ", status, text)

\* the write endpoint answers with a failure status
WriteFail(p) ==
    /\ call[p].pc = "write"
    /\ \E status \in FailStatuses :
         call' = [call EXCEPT ![p] =
                    Throw(call[p], WriteError(call[p].op, status, FailBody(status)))]
    /\ UNCHANGED <<storage, accessToken, tokenExpiry, now, sheet, listed, dirty, issued, localItems, form>>

\* fetch rejects: no answer at all. Inside getAccessToken the catch wraps it
NetworkError(p) ==
    /\ call[p].pc # "idle"
    /\ call' = [call EXCEPT ![p] =
                  Throw(call[p], IF call[p].pc = "exchange" THEN AuthFailed(MsgNetwork)
                                 ELSE MsgNetwork)]
    /\ UNCHANGED <<storage, accessToken, tokenExpiry, now, sheet, listed, dirty, issued, localItems, form>>

\* refetchInterval of the page (part_001 line 56), the step of the clock
RefetchIntervalMs == 30000

\* Date.now() when the page opens
StartMs == 3 * RefetchIntervalMs

\* time passes
Tick ==
    /\ now < StartMs + (MaxTicks * RefetchIntervalMs)
    /\ now' = now + RefetchIntervalMs
    /\ UNCHANGED <<storage, accessToken, tokenExpiry, sheet, call, listed, dirty, issued, localItems, form>>

---------------------------------------------------------------------------
(* The settings page *)

\* texts typed into the fields, with white space around them or nothing else
BlankText == "  "
PaddedSheetId == " sheet-id "
PaddedKeyGood == " {client_email, private_key} "

\* String.prototype.trim on the texts of the fields
TrimText(raw) ==
    CASE raw = BlankText -> ""
      [] raw = PaddedSheetId -> "sheet-id"
      [] raw = PaddedKeyGood -> KeyGood
      [] OTHER -> raw

\* JSON.parse(serviceAccountKey) succeeds and the record has client_email
\* and private_key (lines 45-48); white space around the text is no
\* obstacle to JSON.parse
JsonWithFields(raw) == TrimText(raw) \in {KeyGood, KeyBadPem}

\* the fields as useState initialises them (lines 13-15)
EmptyForm == [sheetId |-> "", sheetName |-> "Sheet1", serviceAccountKey |-> ""]

\* what the user may have typed or uploaded
Forms ==
    [sheetId : {"", BlankText, PaddedSheetId},
     sheetName : {"Sheet1", BlankText},
     serviceAccountKey : {"", BlankText, KeyNotJson, KeyNoFields, PaddedKeyGood, KeyBadPem}]

\* onChange of the fields (lines 156, 201, 218) and the upload (line 116)
EditForm ==
    /\ \E f \in Forms : form' = f
    /\ UNCHANGED <<storage, accessToken, tokenExpiry, now, sheet, call, listed, dirty, issued,
                   localItems>>

\* handleSave going on with the sheet id alone, whatever the credentials
SaveAllowedById(f) == TrimText(f.sheetId) # ""

\* handleSave reaches its setItem calls (lines 33-64)
SaveAllowed(f) ==
    /\ TrimText(f.sheetId) # ""
    /\ TrimText(f.serviceAccountKey) # ""
    /\ JsonWithFields(f.serviceAccountKey)

\* lines 70-72
SavedEntries(f) ==
    [serviceAccountKey |-> TrimText(f.serviceAccountKey),
     googleSheetsId |-> TrimText(f.sheetId),
     googleSheetsName |-> TrimText(f.sheetName)]

\* handleSave (lines 32-93): the three entries are written, or a toast
\* is shown and nothing is written
HandleSave ==
    /\ storage' = IF SaveAllowed(form) THEN SavedEntries(form) ELSE storage
    /\ UNCHANGED <<accessToken, tokenExpiry, now, sheet, call, listed, dirty, issued,
                   localItems, form>>

---------------------------------------------------------------------------
(* Initial states *)

Qty == <<"Q","t","y">>
Cat == <<"C","a","t">>
HeaderRow == <<HeaderItem, Qty, Cat, EmptyText>>
MilkRow == <<Milk, Two, Dairy, EmptyText>>
EggsRow == <<Eggs, EmptyText, EmptyText, EmptyText>>

\* a tab holding the given rows from row 1 on
Tab(rows) == [r \in Rows |-> IF r <= Len(rows) THEN rows[r] ELSE BlankRow]

GoodStorage ==
    [serviceAccountKey |-> KeyGood, googleSheetsId |-> "sheet-id", googleSheetsName |-> Null]

InitService ==
    /\ accessToken = NoToken
    /\ tokenExpiry = 0
    /\ now = StartMs
    /\ call = [p \in Procs |-> Idle]
    /\ listed = <<>>
    /\ localItems = <<>>
    /\ form = EmptyForm
    /\ dirty = FALSE
    /\ issued = [count |-> 0, token |-> NoToken, expiresIn |-> 0, at |-> 0]

---------------------------------------------------------------------------
(* One call site working on the sheet, with a configured store and tokens  *)
(* that outlive the run                                                    *)

InitSheet ==
    /\ InitService
    /\ storage = GoodStorage
    /\ sheet \in {Tab(<<HeaderRow>>), Tab(<<HeaderRow, MilkRow, EggsRow>>)}

NextSheet ==
    \/ StartList(1)
    \/ StartAppend(1)
    \/ StartDelete(1)
    \/ StartReorder(1)
    \/ ExchangeAnswered(1, HourLifetime)
    \/ ReadOk(1)
    \/ WriteOk(1)
    \/ NetworkError(1)

SpecSheet == InitSheet /\ [][NextSheet]_vars

---------------------------------------------------------------------------
(* One call site listing, the read endpoint answering any body *)

PaddedMixedItem == <<" ","I","T","e","m","\t">>

\* rows of a body: without cells, with an empty or a blank first cell, with
\* cells missing at the end, padded, and the header label in two spellings
BodyRows ==
    { <<>>,
      <<EmptyText, Two>>,
      <<Blank, Two, Dairy>>,
      <<Milk, Two, Dairy>>,
      <<Eggs>>,
      <<PaddedEggs, PaddedTwo, Blank, Milk>>,
      <<HeaderItem, Qty, Cat>>,
      <<PaddedMixedItem, Two>> }

Bodies == {NoValues} \cup { Values(rows) : rows \in UNION { [1..n -> BodyRows] : n \in 0..MaxBodyRows } }

\* the read endpoint answers 200 with any of these bodies
ReadAny(p) ==
    /\ call[p].pc = "read"
    /\ \E data \in Bodies : ReadAnswered(p, data)

InitParse ==
    /\ InitService
    /\ storage = GoodStorage
    /\ sheet = Tab(<<HeaderRow>>)

\* one list() for each body
NextParse ==
    \/ call[1].op = "none" /\ StartList(1)
    \/ ExchangeAnswered(1, HourLifetime)
    \/ ReadAny(1)

SpecParse == InitParse /\ [][NextParse]_vars

---------------------------------------------------------------------------
(* Two call sites, the clock running, tokens of every lifetime *)

InitToken ==
    /\ InitService
    /\ storage = GoodStorage
    /\ sheet = Tab(<<HeaderRow, MilkRow>>)

NextToken ==
    \/ \E p \in Procs :
         \/ StartList(p)
         \/ StartDelete(p)
         \/ ExchangeOk(p)
         \/ ReadOk(p)
         \/ WriteOk(p)
         \/ NetworkError(p)
    \/ Tick

SpecToken == InitToken /\ [][NextToken]_vars

---------------------------------------------------------------------------
(* One call site, the store as the service may find it, every endpoint     *)
(* answering with success or with a failure                                *)

InitErr ==
    /\ InitService
    /\ storage \in Storages
    /\ sheet = Tab(<<HeaderRow, MilkRow>>)

NextErr ==
    \/ StartList(1)
    \/ StartAppend(1)
    \/ StartDeleteAny(1)
    \/ StartReorder(1)
    \/ ExchangeAnswered(1, HourLifetime)
    \/ ExchangeFail(1)
    \/ ReadOk(1)
    \/ ReadFail(1)
    \/ WriteOk(1)
    \/ WriteFail(1)
    \/ NetworkError(1)

SpecErr == InitErr /\ [][NextErr]_vars

---------------------------------------------------------------------------
(* One call site deleting by id: ids of listed records whose names look    *)
(* like ids themselves, ids with longer indices, and texts that are no ids *)

\* names a cell may hold: one that contains an id, digits, an underscore
NameLikeAnId == <<"i","t","e","m","_","9","_","x">>
NameDigits == <<"7","_">>
NameUnderscore == <<"_">>
IdNames == {Milk, NameLikeAnId, NameDigits, NameUnderscore}

\* ids as list() makes them, also for rows further down than the grid here
MaxIndex == 12
ListIds == { ItemId(i, name) : i \in 1..MaxIndex, name \in IdNames }

\* texts /item_(\d+)_/ does not match: empty, the page's temporary id, no
\* digits, no closing underscore, another case, a sign
NoIds ==
    { <<>>,
      <<"t","e","m","p","_","7">>,
      <<"i","t","e","m","_">>,
      <<"i","t","e","m","_","_","x">>,
      <<"i","t","e","m","_","x","_">>,
      <<"i","t","e","m","_","1","2">>,
      <<"I","t","e","m","_","1","_","x">>,
      <<"i","t","e","m","_","-","1","_">>,
      <<"i","t","e","m","1","_","x">> }

\* deleteGroceryItem(itemId) for any of these texts
StartDeleteText(p) == DeleteAnyOf(p, ListIds \cup NoIds)

InitId ==
    /\ InitService
    /\ storage = GoodStorage
    /\ sheet = Tab(<<HeaderRow, <<NameLikeAnId, Two, EmptyText, EmptyText>>,
                     <<NameDigits, EmptyText, EmptyText, EmptyText>>>>)

NextId ==
    \/ StartList(1)
    \/ StartDelete(1)
    \/ StartDeleteText(1)
    \/ ExchangeAnswered(1, HourLifetime)
    \/ ReadOk(1)
    \/ WriteOk(1)
    \/ WriteFail(1)

SpecId == InitId /\ [][NextId]_vars

---------------------------------------------------------------------------
(* One call site testing the connection, the store as the service may      *)
(* find it, every endpoint answering with success or with a failure        *)

InitTest ==
    /\ InitService
    /\ storage \in Storages
    /\ sheet = Tab(<<HeaderRow, MilkRow>>)

NextTest ==
    \/ StartTest(1)
    \/ ExchangeAnswered(1, HourLifetime)
    \/ ExchangeFail(1)
    \/ ReadOk(1)
    \/ ReadFail(1)
    \/ NetworkError(1)

SpecTest == InitTest /\ [][NextTest]_vars

---------------------------------------------------------------------------
(* One call site, the clock running, tokens of every lifetime, every       *)
(* endpoint answering with success or with a failure, with and without     *)
(* usable credentials                                                      *)

InitCache ==
    /\ InitService
    /\ storage \in { GoodStorage,
                     [GoodStorage EXCEPT !.serviceAccountKey = KeyNone],
                     [GoodStorage EXCEPT !.serviceAccountKey = KeyNoFields],
                     [GoodStorage EXCEPT !.serviceAccountKey = KeyBadPem] }
    /\ sheet = Tab(<<HeaderRow, MilkRow>>)

NextCache ==
    \/ StartList(1)
    \/ StartDelete(1)
    \/ ExchangeOk(1)
    \/ ExchangeFail(1)
    \/ ReadOk(1)
    \/ ReadFail(1)
    \/ WriteOk(1)
    \/ WriteFail(1)
    \/ NetworkError(1)
    \/ Tick

SpecCache == InitCache /\ [][NextCache]_vars

---------------------------------------------------------------------------
(* Two call sites, each appending once to a sheet that holds the header    *)

InitAppend ==
    /\ InitService
    /\ storage = GoodStorage
    /\ sheet = Tab(<<HeaderRow>>)

NextAppend ==
    \E p \in Procs :
        \/ call[p].op = "none" /\ StartAppend(p)
        \/ ExchangeAnswered(p, HourLifetime)
        \/ ReadOk(p)
        \/ WriteOk(p)

SpecAppend == InitAppend /\ [][NextAppend]_vars

---------------------------------------------------------------------------
(* The list page: it fetches the records and deletes records it shows      *)

InitPage ==
    /\ InitService
    /\ storage = GoodStorage
    /\ sheet \in {Tab(<<HeaderRow, MilkRow>>), Tab(<<HeaderRow, MilkRow, EggsRow>>)}

NextPage ==
    \/ StartList(1)
    \/ StartDeleteShown(1)
    \/ ExchangeAnswered(1, HourLifetime)
    \/ ReadOk(1)
    \/ ReadFail(1)
    \/ WriteOk(1)
    \/ WriteFail(1)

SpecPage == InitPage /\ [][NextPage]_vars

---------------------------------------------------------------------------
(* The settings page saving into a store that starts empty, and the        *)
(* service reading what was saved                                          *)

EmptyStorage ==
    [serviceAccountKey |-> Null, googleSheetsId |-> Null, googleSheetsName |-> Null]

InitSettings ==
    /\ InitService
    /\ storage = EmptyStorage
    /\ sheet = Tab(<<HeaderRow, MilkRow>>)

NextSettings ==
    \/ EditForm
    \/ HandleSave
    \/ StartTest(1)
    \/ ExchangeAnswered(1, HourLifetime)
    \/ ReadOk(1)
    \/ NetworkError(1)

SpecSettings == InitSettings /\ [][NextSettings]_vars

---------------------------------------------------------------------------
(* One call site running lists and, on a sheet no write has changed yet,   *)
(* the three writing operations; each answer of the token endpoint and of  *)
(* the sheet is a success or a failure                                     *)

\* the sheets at the start: without records, and with two
OrderSheets == {Tab(<<HeaderRow>>), Tab(<<HeaderRow, MilkRow, EggsRow>>)}

InitOrder ==
    /\ InitService
    /\ storage \in {GoodStorage, [GoodStorage EXCEPT !.serviceAccountKey = KeyBadPem]}
    /\ sheet \in OrderSheets

NextOrder ==
    \/ StartList(1)
    \/ sheet \in OrderSheets /\ StartAppend(1)
    \/ sheet \in OrderSheets /\ StartDelete(1)
    \/ sheet \in OrderSheets /\ StartReorder(1)
    \/ ExchangeAnswered(1, HourLifetime)
    \/ ExchangeFail(1)
    \/ ReadOk(1)
    \/ ReadFail(1)
    \/ WriteOk(1)
    \/ WriteFail(1)
    \/ NetworkError(1)

SpecOrder == InitOrder /\ [][NextOrder]_vars

---------------------------------------------------------------------------
(* Properties of the token cache *)

\* the write and the exchange requests among the requests of a call
Writes(t) == SelectSeq(t.sent, LAMBDA q : q.kind = "write")
Exchanges(t) == SelectSeq(t.sent, LAMBDA q : q.kind = "exchange")

\* the cache test of the call found a token whose expiry lay ahead
FoundLiveToken(t) == t.seen.token # NoToken /\ t.seen.at < t.seen.expiry

\* C5: with a valid credential record, a call issues an exchange request
\* exactly when its cache test finds no token or finds now >= the expiry: a
\* call waiting for the token endpoint found no live token, and a list or a
\* delete that went on to its spreadsheet request issued no exchange when
\* it found a live token and one exchange when it did not.
C5_ExchangeOnlyWithoutLiveToken ==
    \A p \in Procs :
        /\ call[p].pc = "exchange" => ~FoundLiveToken(call[p])
        /\ call[p].pc \in {"read", "write"} =>
              Len(Exchanges(call[p])) = IF FoundLiveToken(call[p]) THEN 0 ELSE 1

\* a call found an expired token that had been live when it was stored, and
\* waits for its exchange, while the other call went on with that token
\* taken from the cache
C5_Witness ==
    \E p, q \in Procs :
        /\ call[p].pc = "exchange"
        /\ call[p].seen.token # NoToken /\ call[p].seen.at >= call[p].seen.expiry
        /\ issued.token = call[p].seen.token /\ issued.at < call[p].seen.expiry
        /\ call[q].pc = "read" /\ Exchanges(call[q]) = <<>>
        /\ Last(call[q].sent).bearer = call[p].seen.token

\* getAccessToken hands call site p the cached token in this step: the call
\* starts and its first request is not an exchange
TakesCachedToken(p) ==
    /\ call[p].pc = "idle"
    /\ call'[p].pc \in {"read", "write"}

\* C6: a successful exchange completed at time t with reported lifetime
\* expires_in leaves the cache with expiry t + expires_in * 1000 - 60000,
\* and a token is taken from the cache only while now < the cached expiry.
C6_ExpiryStoredAndRespected ==
    [][/\ issued' # issued =>
            /\ issued'.at = now
            /\ accessToken' = issued'.token
            /\ tokenExpiry' = now + (issued'.expiresIn * 1000) - 60000
       /\ \A p \in Procs :
            TakesCachedToken(p) =>
                /\ now < tokenExpiry
                /\ Last(call'[p].sent).bearer = accessToken
                /\ accessToken # NoToken
      ]_vars

\* a token stored with a lifetime longer than the margin was taken from the
\* cache by a later call
C6_Witness ==
    \E p \in Procs :
        /\ call[p].pc \in {"read", "write"} /\ Exchanges(call[p]) = <<>>
        /\ Last(call[p].sent).bearer = issued.token
        /\ tokenExpiry = issued.at + 30000
        /\ now < tokenExpiry

\* C7: under every interleaving of the calls, the two fields of the cache
\* are the token and the expiry of one exchange answer, the last one
\* answered with success (and null and 0 before any).
C7_CacheIsLastAnswer ==
    IF issued.count = 0 THEN accessToken = NoToken /\ tokenExpiry = 0
    ELSE /\ accessToken = issued.token
         /\ tokenExpiry = issued.at + (issued.expiresIn * 1000) - 60000

\* two exchanges overlapped: a call that found the cache empty holds the
\* second token issued, so the first was stored while it waited; the cache
\* holds the second, whose expiry is the earlier of the two
C7_Witness ==
    \E p \in Procs :
        /\ call[p].pc = "read" /\ call[p].seen.token = NoToken
        /\ Last(call[p].sent).bearer = 2
        /\ issued.count = 2 /\ accessToken = 2
        /\ issued.expiresIn = 30

---------------------------------------------------------------------------
(* Properties of list() *)

\* the first cell of the row is present, not blank once trimmed, and not the
\* word "item" in any case
Listable(row) ==
    /\ Len(row) >= 1
    /\ trim(row[1]) # EmptyText
    /\ toLowerCase(trim(row[1])) # LowerItem

\* the row indices (0 for the first row of the body) that give a record
RecordIndices(rows) == { i \in 1..(Len(rows) - 1) : Listable(rows[i + 1]) }

RECURSIVE Ascending(_)
Ascending(S) ==
    IF S = {} THEN <<>>
    ELSE LET m == CHOOSE x \in S : \A y \in S : x <= y
         IN  <<m>> \o Ascending(S \ {m})

\* the j-th cell of a row, the empty text when the row has no such cell
CellOrEmpty(row, j) == IF Len(row) >= j THEN row[j] ELSE EmptyText

\* the records of a body with quantity and category as the cells hold them
RecordsAsRead(rows) ==
    LET idx == Ascending(RecordIndices(rows))
    IN  [k \in 1..Len(idx) |->
            [id |-> <<"i","t","e","m","_">> \o Decimal(idx[k]) \o <<"_">>
                       \o trim(rows[idx[k] + 1][1]),
             name |-> trim(rows[idx[k] + 1][1]),
             quantity |-> CellOrEmpty(rows[idx[k] + 1], 2),
             category |-> CellOrEmpty(rows[idx[k] + 1], 3)]]

\* the same with quantity and category trimmed
RecordsTrimmed(rows) ==
    LET raw == RecordsAsRead(rows)
    IN  [k \in 1..Len(raw) |->
            [raw[k] EXCEPT !.quantity = trim(@), !.category = trim(@)]]

ListReturned(p) == call[p].op = "list" /\ call[p].result.state = "ok"

\* C2 as stated: a list() that was answered a body returns, in ascending
\* row order, one record per row index i >= 1 whose first cell is present,
\* not blank after trimming and not "item" in any case, with id
\* item_<i>_<trimmed name>, name the first cell trimmed, quantity the second
\* cell and category the third cell, absent cells being the empty text; a
\* missing, empty or header-only body gives the empty sequence.
C2_ListReturnsCellsAsRead ==
    \A p \in Procs :
        ListReturned(p) => call[p].result.items = RecordsAsRead(call[p].body.values)

\* C2 amended: the same, with quantity the second cell trimmed and category
\* the third cell trimmed.
C2_ListReturnsTrimmedCells ==
    \A p \in Procs :
        ListReturned(p) => call[p].result.items = RecordsTrimmed(call[p].body.values)

\* a list() returned two records or more from a body with a skipped row
\* between two of them and a quantity that trimming changed
C2_Witness ==
    \E p \in Procs :
        /\ ListReturned(p)
        /\ Len(call[p].result.items) >= 2
        /\ ParsedIndex(call[p].result.items[2].id) > ParsedIndex(call[p].result.items[1].id) + 1
        /\ call[p].result.items # RecordsAsRead(call[p].body.values)

---------------------------------------------------------------------------
(* Properties of the row operations *)

\* the record list() makes of sheet row `row` of a body, <<>> when it makes none
RowRecord(data, row) ==
    IF data.has /\ row >= 2 /\ row <= Len(data.values) /\ ~SkipRow(data.values[row])
    THEN RowItems(data.values[row], row - 1)
    ELSE <<>>

\* an optional field "or the empty string"
OrEmpty(text) == IF text = Undefined THEN EmptyText ELSE text

\* call site p's write of operation op is answered with success in this step
WriteSucceeds(p, op) ==
    /\ call[p].op = op /\ call[p].pc = "write"
    /\ call'[p].pc = "idle" /\ call'[p].result.state = "ok"

\* C1: when append issues its write, it is its only write, it goes to the
\* single row (number of records its list() returned) + 2, and that row
\* holds none of the records that list() returned.
C1_AppendWritesPastTheRecords ==
    \A p \in Procs :
        (call[p].op = "append" /\ call[p].pc = "write") =>
            LET req == Last(call[p].sent)
                count == Len(ParseItems(call[p].body))
            IN  /\ Len(Writes(call[p])) = 1
                /\ req.first = count + 2 /\ req.last = count + 2
                /\ Len(req.values) = 1 /\ Len(req.values[1]) = 4
                /\ RowRecord(call[p].body, req.first) = <<>>

\* C3: a delete of a record r of the latest list(), with no write since that
\* list() read the sheet, issues one write, to the row r was read from and
\* with four empty texts; the write changes that row alone, and a list() of
\* the sheet after it gives the same records with the same ids, minus r.
C3_DeleteBlanksTheRowRead ==
    [][\A p \in Procs :
        (/\ WriteSucceeds(p, "delete")
         /\ ~dirty
         /\ \E r \in Range(listed) : r.id = call[p].itemId)
        => LET r == CHOOSE x \in Range(listed) : x.id = call[p].itemId
               k == CHOOSE row \in Rows : RowRecord(ReadBody(sheet), row) = <<r>>
               req == Last(call[p].sent)
           IN  /\ \E row \in Rows : RowRecord(ReadBody(sheet), row) = <<r>>
               /\ Len(Writes(call[p])) = 1
               /\ req.first = k /\ req.last = k /\ req.values = <<BlankRow>>
               /\ req.first = ParsedIndex(call[p].itemId) + 1
               /\ sheet' = [sheet EXCEPT ![k] = BlankRow]
               /\ ParseItems(ReadBody(sheet')) = SelectSeq(listed, LAMBDA x : x # r)
      ]_vars

\* a delete of a listed record succeeded with no write in between: the sheet
\* lists what was listed but for one record
C3_Witness ==
    \E p \in Procs :
        /\ call[p].op = "delete" /\ call[p].result.state = "ok" /\ call[p].fresh
        /\ Len(listed) >= 2
        /\ \E r \in Range(listed) :
             ParseItems(ReadBody(sheet)) = SelectSeq(listed, LAMBDA x : x # r)

---------------------------------------------------------------------------
(* Properties of the errors *)

\* the service throws Error objects only; what tells two errors apart is the
\* text: the kind of error a message stands for
ErrorKind(message) ==
    CASE message = MsgAccessDenied -> "AccessDenied"
      [] message = MsgNotFound -> "NotFound"
      [] message \in {MsgNoCredentials, MsgBadCredentials, MsgNoSheetId} -> "Configuration"
      [] message[1] = "Authentication failed: " -> "Authentication"
      [] message[1] = "HTTP error! status: " -> "Request"
      [] message = MsgBadItemId -> "Validation"
      [] OTHER -> "Other"

\* the kind the three-way split of the statuses asks for
ReadFailureKind(status) ==
    IF status = 403 THEN "AccessDenied" ELSE IF status = 404 THEN "NotFound" ELSE "Request"

\* the text of the error holds the status code and the body of the answer
Carries(message, status, text) ==
    /\ \E k \in 1..Len(message) : message[k] = ToString(status)
    /\ \E k \in 1..Len(message) : message[k] = text

\* C8: when the read endpoint answers list() with a failure status, the
\* error thrown is of the kind of the status (403, 404, any other) and
\* carries the status code and the body text of the answer.
C8_ReadFailureKeepsStatusAndBody ==
    [][\A p \in Procs : \A status \in FailStatuses :
          (/\ call[p].op = "list" /\ call[p].pc = "read"
           /\ call'[p] = Throw(call[p], ReadError(status, FailBody(status))))
          => /\ ErrorKind(call'[p].result.error) = ReadFailureKind(status)
             /\ Carries(call'[p].result.error, status, FailBody(status))
      ]_vars

\* the exchange of the call was answered with a failure status
ExchangeRefused(t) ==
    /\ Exchanges(t) # <<>>
    /\ \E status \in FailStatuses :
         t.result.error =
             AuthFailed(MsgHttp("Failed to get OAuth access token: ", status, FailBody(status)))

\* C9: a call that needs a token and finds the credential record absent,
\* unparsable or without its two fields fails with a configuration error
\* and issues no request; an authentication error is the outcome of a
\* refused exchange only; both reach the caller of an operation as thrown.
C9_ConfigurationApartFromAuthentication ==
    \A p \in Procs :
        call[p].result.state = "error" =>
            /\ (/\ ~getServiceAccountCredentials.ok
                /\ call[p].result.error # MsgBadItemId)
               => /\ ErrorKind(call[p].result.error) = "Configuration"
                  /\ call[p].sent = <<>>
            /\ ErrorKind(call[p].result.error) = "Authentication" => ExchangeRefused(call[p])

\* C10: while the sheet id is not configured no operation issues a request,
\* neither an exchange nor a read or write, and the tab name resolves to a
\* non-empty text.
C10_NoRequestWithoutSheetId ==
    /\ ~SheetIdConfigured => \A p \in Procs : call[p].sent = <<>>
    /\ ~Missing(getSheetName)

---------------------------------------------------------------------------
(* Properties of the ids *)

\* the text holds item_, then one decimal digit or more, then an underscore
IsDigit(c) == \E d \in 1..10 : DigitChars[d] = c
MatchesPattern(id) ==
    \E k \in 1..Len(id) : \E m \in 1..Len(id) :
        /\ k + 5 + m <= Len(id)
        /\ SubSeq(id, k, k + 4) = <<"i","t","e","m","_">>
        /\ \A j \in (k + 5)..(k + 4 + m) : IsDigit(id[j])
        /\ id[k + 5 + m] = "_"

\* call site p calls deleteGroceryItem in this step
DeleteBegins(p) == call[p].pc = "idle" /\ call'[p].op = "delete" /\ call'[p] # call[p]

\* call site p calls deleteGroceryItem(id) in this step
DeleteCalled(p, id) ==
    /\ DeleteBegins(p)
    /\ call'[p] = DeleteStart([Idle EXCEPT !.op = "delete", !.itemId = id])

\* C11: delete(itemId) for a text the pattern item_<digits>_ does not match
\* fails with the validation error in the step of the call, with no request
\* issued and the sheet and the token cache unchanged; for an id list()
\* made, item_<i>_<name> for any name, the call is not rejected and the row
\* of its write is i + 1.
C11_DeleteParsesTheIdsOfList ==
    [][\A p \in Procs :
         /\ DeleteBegins(p) =>
               /\ \A id \in NoIds :
                    DeleteCalled(p, id) =>
                        /\ ~MatchesPattern(id)
                        /\ call'[p].pc = "idle"
                        /\ call'[p].result.error = MsgBadItemId
                        /\ ErrorKind(call'[p].result.error) = "Validation"
                        /\ call'[p].sent = <<>>
                        /\ UNCHANGED <<sheet, accessToken, tokenExpiry, issued>>
               /\ \A i \in 1..MaxIndex : \A name \in IdNames :
                    (/\ call'[p].pc = "idle" \/ call'[p].itemId = ItemId(i, name)
                     /\ DeleteCalled(p, ItemId(i, name))) =>
                        /\ MatchesPattern(ItemId(i, name))
                        /\ call'[p].result.state = "none"
                        /\ call'[p].pc \in {"exchange", "write"}
                        /\ call'[p].itemId = ItemId(i, name)
         /\ (call'[p].op = "delete" /\ call'[p].pc = "write" /\ call[p].pc # "write") =>
               \A i \in 1..MaxIndex : \A name \in IdNames :
                    call'[p].itemId = ItemId(i, name) =>
                        /\ Last(call'[p].sent).first = i + 1
                        /\ Last(call'[p].sent).last = i + 1
      ]_vars

\* the write of a delete is in flight for a record list() returned whose
\* name holds an id of another row
C11_Witness ==
    \E p \in Procs :
        /\ call[p].op = "delete" /\ call[p].pc = "write"
        /\ call[p].itemId = ItemId(1, NameLikeAnId)
        /\ \E k \in 1..Len(listed) : listed[k].id = call[p].itemId
        /\ Last(call[p].sent).first = 2

---------------------------------------------------------------------------
(* Properties of testConnection *)

\* the requests of one getGroceryItems: a read, after an exchange or not
RequestsOfOneList(sent) ==
    [k \in 1..Len(sent) |-> sent[k].kind]
        \in { <<>>, <<"exchange">>, <<"read">>, <<"exchange", "read">> }

\* the read of call site p is answered 200 in this step
ReadSucceeds(p) ==
    /\ call[p].pc = "read"
    /\ call'[p].pc = "idle"
    /\ call'[p].body = ReadBody(sheet)

\* C12: testConnection() never raises; it returns true exactly when the
\* read of its getGroceryItems is answered with success and false for every
\* error of getGroceryItems; its requests are those of one getGroceryItems
\* and the sheet stays as it is.
C12_TestConnectionNeverRaises ==
    [][\A p \in Procs :
         (call'[p].op = "test" /\ call'[p] # call[p]) =>
             /\ call'[p].result.state # "error"
             /\ call'[p].pc = "idle" => call'[p].result.state \in {"true", "false"}
             /\ call'[p].result.state = "true" <=> ReadSucceeds(p)
             /\ call'[p].result.state = "false" => call'[p].result.error # <<>>
             /\ RequestsOfOneList(call'[p].sent)
             /\ sheet' = sheet
      ]_vars

\* testConnection returned false after the read was answered 403
C12_Witness ==
    \E p \in Procs :
        /\ call[p].op = "test" /\ call[p].pc = "idle"
        /\ call[p].result.state = "false"
        /\ call[p].result.error = MsgAccessDenied
        /\ Len(call[p].sent) = 2

---------------------------------------------------------------------------
(* Frame of the token cache *)

\* the exchange of call site p is answered 200 in this step
ExchangeSucceeds(p) ==
    /\ call[p].pc = "exchange"
    /\ call'[p].pc # "exchange"
    /\ issued'.count = issued.count + 1
    /\ issued'.at = now

\* call site p's request, sent with the token the cache holds, is answered
\* with a failure status in this step
CachedTokenRefused(p) ==
    /\ call[p].pc \in {"read", "write"}
    /\ Last(call[p].sent).bearer = accessToken
    /\ call'[p].pc = "idle"
    /\ call'[p].result.state = "error"
    /\ call'[p].result.error # MsgNetwork

\* C13: the token and the expiry of the cache change only in a step in
\* which an exchange is answered with success; a failed exchange, a failure
\* of the configuration and every answer of the spreadsheet leave them as
\* they are, so a cached token that was refused stays usable as long as it
\* was before.
C13_OnlyExchangeChangesTheCache ==
    [][/\ (accessToken' # accessToken \/ tokenExpiry' # tokenExpiry) =>
            \E p \in Procs : ExchangeSucceeds(p)
       /\ \A p \in Procs :
            CachedTokenRefused(p) =>
                /\ accessToken' = accessToken /\ tokenExpiry' = tokenExpiry
                /\ CachedTokenUsable(Cache) => CachedTokenUsable(Cache)'
      ]_vars

\* a read sent with a token taken from the cache was answered 403, and the
\* cache holds that token with its expiry still ahead
C13_Witness ==
    \E p \in Procs :
        /\ call[p].pc = "idle" /\ call[p].result.error = MsgAccessDenied
        /\ Exchanges(call[p]) = <<>>
        /\ Last(call[p].sent).bearer = accessToken
        /\ accessToken # NoToken /\ now < tokenExpiry

---------------------------------------------------------------------------
(* Order and number of the requests of an operation *)

\* the kinds of the spreadsheet requests among the requests, in order
SheetRequests(sent) ==
    LET s == SelectSeq(sent, LAMBDA q : q.kind # "exchange")
    IN  [k \in 1..Len(s) |-> s[k].kind]

\* the spreadsheet requests of an operation that succeeds
RequestsOf(op) ==
    CASE op = "list" -> <<"read">>
      [] op = "append" -> <<"read", "write">>
      [] OTHER -> <<"write">>

\* C14: a read or a write carries a token getAccessToken returned, which
\* the token endpoint issued; an operation that succeeds has sent one read
\* (list), one write (delete, reorder) or one read and then one write
\* (append); and the step in which an operation fails sends nothing: after
\* an answer that is no success no request follows and none is repeated.
C14_RequestsAreSingleShot ==
    [][\A p \in Procs :
         call'[p] # call[p] =>
             /\ \A k \in 1..Len(call'[p].sent) :
                  call'[p].sent[k].kind \in {"read", "write"} =>
                      /\ call'[p].sent[k].bearer # NoToken
                      /\ call'[p].sent[k].bearer <= issued'.count
             /\ call'[p].result.state = "ok" =>
                  SheetRequests(call'[p].sent) = RequestsOf(call'[p].op)
             /\ call'[p].result.state = "error" =>
                  /\ call'[p].pc = "idle"
                  /\ call'[p].sent = IF call[p].pc = "idle" THEN <<>> ELSE call[p].sent
             /\ (call[p].pc # "idle" /\ call'[p].pc # "idle") =>
                  /\ call'[p].result.state = "none"
                  /\ Len(call'[p].sent) = Len(call[p].sent) + 1
                  /\ SubSeq(call'[p].sent, 1, Len(call[p].sent)) = call[p].sent
                  /\ Last(call'[p].sent) # Last(call[p].sent)
      ]_vars

\* an append succeeded with one exchange, one read and one write, in
\* this order
C14_Witness ==
    \E p \in Procs :
        /\ call[p].op = "append" /\ call[p].result.state = "ok"
        /\ [k \in 1..Len(call[p].sent) |-> call[p].sent[k].kind] = <<"exchange", "read", "write">>

---------------------------------------------------------------------------
(* Ids handed out before a later write *)

\* the names of the records a body yields
NamesIn(data) == { r.name : r \in Range(ParseItems(data)) }

\* C15: delete called with the id of a record of an earlier list() is not
\* rejected, also after writes that changed the rows since, and its write,
\* once answered, has blanked row parsedIndex + 1 whatever that row held
\* and left the other rows as they were.
C15_DeleteTrustsTheIdAfterWrites ==
    [][\A p \in Procs :
         /\ (DeleteBegins(p) /\ dirty) =>
               /\ call'[p].result.state = "none"
               /\ call'[p].pc \in {"exchange", "write"}
         /\ (WriteSucceeds(p, "delete") /\ dirty) =>
               LET row == ParsedIndex(call[p].itemId) + 1
               IN  /\ Last(call[p].sent).first = row
                   /\ sheet' = [sheet EXCEPT ![row] = BlankRow]
      ]_vars

\* the page listed Milk in row 2 and Eggs in row 3; after a write that
\* moved them, delete with the id of Milk blanked row 2: Eggs, which the
\* page lists, is gone from the sheet, and Milk is still in it
C15_Witness ==
    \E p \in Procs :
        /\ call[p].op = "delete" /\ call[p].result.state = "ok" /\ ~call[p].fresh
        /\ Len(listed) = 2
        /\ listed[1].id = ItemId(1, Milk) /\ listed[2].name = Eggs
        /\ Last(call[p].sent).first = ParsedIndex(listed[1].id) + 1
        /\ sheet[2] = BlankRow
        /\ Milk \in NamesIn(ReadBody(sheet))
        /\ Eggs \notin NamesIn(ReadBody(sheet))

---------------------------------------------------------------------------
(* reorder followed by list() *)

\* name, quantity and category of the records, in order
Contents(items) ==
    [k \in 1..Len(items) |->
        <<items[k].name, OrEmpty(items[k].quantity), OrEmpty(items[k].category)>>]

\* the sequence is a rearrangement of the records the page lists
PermutationOfListed(items) ==
    /\ Len(items) = Len(listed)
    /\ Range(items) = Range(listed)

\* C16: when reorder(items) succeeds for a rearrangement of the records of
\* the latest list(), with no write since that list(), a list() of the
\* sheet as the write leaves it returns records with the names, quantities
\* and categories of items, in that order, and no other record.
C16_ListAfterReorderReturnsItems ==
    [][\A p \in Procs :
         (WriteSucceeds(p, "reorder") /\ ~dirty /\ PermutationOfListed(call[p].items)) =>
             Contents(ParseItems(ReadBody(sheet'))) = Contents(call[p].items)
      ]_vars

---------------------------------------------------------------------------
(* Two appends at once *)

\* the append of the call site has succeeded
Appended(p) == call[p].op = "append" /\ call[p].result.state = "ok"

\* the name its write put into the sheet
AppendedName(p) == Last(call[p].sent).values[1][1]

\* C17: once two appends that ran at the same time have both succeeded,
\* they have written different rows and a list() of the sheet returns a
\* record for each of the two items.
C17_ConcurrentAppendsBothKept ==
    (\A p \in Procs : Appended(p)) =>
        /\ \A p, q \in Procs :
             p # q => Last(call[p].sent).first # Last(call[q].sent).first
        /\ Len(ParseItems(ReadBody(sheet))) = Cardinality(Procs)
        /\ \A p \in Procs : AppendedName(p) \in NamesIn(ReadBody(sheet))

---------------------------------------------------------------------------
(* The records the page shows *)

\* the fetch of the page completes with success in this step
FetchCompletes(p) ==
    /\ call[p].op = "list" /\ call[p].pc = "read"
    /\ call'[p].pc = "idle" /\ call'[p].result.state = "ok"

\* C18: when a fetch of the page completes with success (the page of the
\* model drags nothing), the records shown are the records fetched, also
\* when none was fetched.
C18_ShownItemsAreFetchedItems ==
    [][\A p \in Procs :
         FetchCompletes(p) =>
             /\ listed' = call'[p].result.items
             /\ localItems' = listed'
      ]_vars

---------------------------------------------------------------------------
(* What the settings page stores *)

============================================================================
